---- MODULE Spec2Model ----
(***************************************************************************)
(* Model of the ESP32 bus tracker firmware (esp32_bus_tracker.ino): the    *)
(* NMEA sentence reader and parsers, the Position State they write, the    *)
(* telemetry scheduler and the MQTT connection handling of loop().         *)
(*                                                                         *)
(* Strings are sequences of one-character strings, indexed from 0 as in    *)
(* the Arduino String class.  Floats are exact fixed-point integers:       *)
(*   - a parsed number (toFloat) is held in thousandths,                   *)
(*   - latitude / longitude are held in 1/60000 of a degree (one           *)
(*     thousandth of an arc minute), so deg + minutes/60 is exact,         *)
(*   - speed is held in millionths of a km/h, so knots * 1.852 is exact.   *)
(* Rounding of 32-bit floats is not modelled.                              *)
(***************************************************************************)
EXTENDS Integers, Sequences, FiniteSets, TLC

VARIABLES
    gpsData,        \* struct GPSData: latitude, longitude, speed, heading, fix
    satelliteCount, \* int satelliteCount
    lastMQTTSend,   \* unsigned long lastMQTTSend
    now,            \* millis(): uptime in ms
    connected,      \* client.connected()
    pc,             \* position of the control loop
    rx,             \* bytes waiting in the Serial2 receive buffer
    wire,           \* bytes of the sentence the receiver is still sending
    gpsString,      \* the String readStringUntil returned
    frame,          \* the frame this iteration of loop() handed to publish
    delivered,      \* whether that publish reached the broker
    fails,          \* history: consecutive failed handshakes, up to MaxFails
    clockOn         \* TRUE: millis() is tracked; FALSE: it is left abstract

vars == <<gpsData, satelliteCount, lastMQTTSend, now, connected, pc, rx, wire,
          gpsString, frame, delivered, fails, clockOn>>

-----------------------------------------------------------------------------
(* Arduino String operations *)

Min(a, b) == IF a <= b THEN a ELSE b

\* s[i] with the code's 0-based index
CharAt(s, i) == s[i + 1]

\* String::substring(left, right): characters [left, right), the arguments
\* swapped when left > right, right clipped to the length, "" when left is
\* past the end
Substring(s, left, right) ==
    LET lo == IF left > right THEN right ELSE left
        hi == Min(IF left > right THEN left ELSE right, Len(s))
    IN  IF lo >= Len(s) THEN <<>> ELSE SubSeq(s, lo + 1, hi)

\* String::startsWith(prefix)
StartsWith(s, p) == Len(s) >= Len(p) /\ SubSeq(s, 1, Len(p)) = p

Digits == {"0", "1", "2", "3", "4", "5", "6", "7", "8", "9"}

DigitVal(c) ==
    CASE c = "0" -> 0 [] c = "1" -> 1 [] c = "2" -> 2 [] c = "3" -> 3
      [] c = "4" -> 4 [] c = "5" -> 5 [] c = "6" -> 6 [] c = "7" -> 7
      [] c = "8" -> 8 [] c = "9" -> 9

\* number of leading digits of s from 0-based position i
RECURSIVE DigitRun(_, _)
DigitRun(s, i) ==
    IF i < Len(s) /\ CharAt(s, i) \in Digits THEN 1 + DigitRun(s, i + 1) ELSE 0

\* value of the n digits of s that start at 0-based position i
RECURSIVE DigitsVal(_, _, _)
DigitsVal(s, i, n) ==
    IF n = 0 THEN 0
    ELSE DigitsVal(s, i, n - 1) * 10 + DigitVal(CharAt(s, i + n - 1))

\* length of an optional sign at the start of s
SignLen(s) == IF Len(s) > 0 /\ s[1] \in {"-", "+"} THEN 1 ELSE 0

\* String::toInt() (atol): optional sign, leading digits, 0 when there are none
ToInt(s) ==
    LET sg == SignLen(s)
        v  == DigitsVal(s, sg, DigitRun(s, sg))
    IN  IF sg = 1 /\ s[1] = "-" THEN -v ELSE v

\* String::toFloat() (atof) in thousandths: optional sign, digits, an optional
\* point and digits; parsing stops at the first other character; 0 when there
\* is no number.  Decimals past the third are dropped.
ToFloat(s) ==
    LET sg   == SignLen(s)
        ni   == DigitRun(s, sg)
        ip   == DigitsVal(s, sg, ni)
        dot  == sg + ni < Len(s) /\ CharAt(s, sg + ni) = "."
        nf   == IF dot THEN DigitRun(s, sg + ni + 1) ELSE 0
        f1   == IF nf >= 1 THEN DigitVal(CharAt(s, sg + ni + 1)) ELSE 0
        f2   == IF nf >= 2 THEN DigitVal(CharAt(s, sg + ni + 2)) ELSE 0
        f3   == IF nf >= 3 THEN DigitVal(CharAt(s, sg + ni + 3)) ELSE 0
        v    == ip * 1000 + f1 * 100 + f2 * 10 + f3
    IN  IF ni + nf = 0 THEN 0
        ELSE IF sg = 1 /\ s[1] = "-" THEN -v ELSE v

\* int(x / d) for d > 0: C++ conversion truncates toward zero
IntTrunc(x, d) == IF x >= 0 THEN x \div d ELSE -((-x) \div d)

-----------------------------------------------------------------------------
(* The parsers *)

\* mutant: the scan does not stop when the table is full
RECURSIVE CommaScan_NoCap(_, _, _, _)
CommaScan_NoCap(nmea, i, idx, cap) ==
    IF i < Len(nmea)
    THEN CommaScan_NoCap(nmea, i + 1,
                         IF CharAt(nmea, i) = "," THEN Append(idx, i) ELSE idx,
                         cap)
    ELSE idx

\* for (i = 0; i < nmea.length() && cnt < cap; i++) if (nmea[i] == ',')
\*     idx[cnt++] = i;      the recorded 0-based comma positions, in order
RECURSIVE CommaScan(_, _, _, _)
CommaScan(nmea, i, idx, cap) ==
    IF i < Len(nmea) /\ Len(idx) < cap
    THEN CommaScan(nmea, i + 1,
                   IF CharAt(nmea, i) = "," THEN Append(idx, i) ELSE idx, cap)
    ELSE idx

\* nmea.substring(idx[k] + 1, idx[k + 1]) with the code's 0-based k
Field(nmea, idx, k) == Substring(nmea, idx[k + 1] + 1, idx[k + 2])

RMC_IDX == 12
RMC_MIN == 9
GGA_IDX == 15
GGA_MIN == 8

\* val = s.toFloat(); deg = int(val / 100); deg + (val - deg * 100) / 60.0
\* in 1/60000 degree: the minutes are val - deg * 100, in thousandths
DegMin(s) ==
    LET val == ToFloat(s)
        deg == IntTrunc(val, 100000)
    IN  deg * 60000 + (val - deg * 100000)

\* The element of a set of one element.  Val({e(x) : x \in {v}}) is e(v)
\* with v evaluated once: it stands for a local variable of the code.
Val(S) == CHOOSE x \in S : TRUE

\* mutant: an empty field clears the stored value
Coordinate_ZeroOnEmpty(old, s, dir, neg) ==
    Val({ IF Len(t) > 0
          THEN IF dir = neg THEN -DegMin(t) ELSE DegMin(t)
          ELSE 0 : t \in {s} })

\* mutant: the hemisphere letter is not looked at
Coordinate_Unsigned(old, s, dir, neg) ==
    Val({ IF Len(t) > 0 THEN DegMin(t) ELSE old : t \in {s} })

\* if (s.length()) { field = DegMin(s); if (dir == neg) field *= -1; }
Coordinate(old, s, dir, neg) ==
    Val({ IF Len(t) > 0
          THEN IF dir = neg THEN -DegMin(t) ELSE DegMin(t)
          ELSE old : t \in {s} })

\* if (sp.length()) gpsData.speed = sp.toFloat() * 1.852;
Speed(old, sp) ==
    Val({ IF Len(t) > 0 THEN ToFloat(t) * 1852 ELSE old : t \in {sp} })

\* mutant: the course over ground (the field after the speed) is stored as
\* the heading
RmcFix_Course(g, nmea, idx) ==
    [g EXCEPT
       !.fix = TRUE,
       !.latitude  = Coordinate(g.latitude, Field(nmea, idx, 2),
                                 Field(nmea, idx, 3), <<"S">>),
       !.longitude = Coordinate(g.longitude, Field(nmea, idx, 4),
                                 Field(nmea, idx, 5), <<"W">>),
       !.speed     = Speed(g.speed, Field(nmea, idx, 6)),
       !.heading   = ToFloat(Field(nmea, idx, 7))]

\* parseGPRMC past its validity check: the fix is set and each non-empty
\* field is converted and stored
RmcFix(g, nmea, idx) ==
    [g EXCEPT
       !.fix = TRUE,
       !.latitude  = Coordinate(g.latitude, Field(nmea, idx, 2),
                                 Field(nmea, idx, 3), <<"S">>),
       !.longitude = Coordinate(g.longitude, Field(nmea, idx, 4),
                                 Field(nmea, idx, 5), <<"W">>),
       !.speed     = Speed(g.speed, Field(nmea, idx, 6))]

\* mutant: the values are cleared when the fix is lost
parseGPRMC_ClearOnLoss(g, nmea) ==
    Val({ IF Len(idx) < RMC_MIN THEN g
          ELSE IF Field(nmea, idx, 1) # <<"A">>
               THEN [g EXCEPT !.fix = FALSE, !.latitude = 0, !.longitude = 0,
                              !.speed = 0]
          ELSE RmcFix(g, nmea, idx)
          : idx \in {CommaScan(nmea, 0, <<>>, RMC_IDX)} })

\* mutant: the comma count is checked against the last index read (8)
parseGPRMC_OneShort(g, nmea) ==
    Val({ IF Len(idx) < RMC_MIN - 1 THEN g
          ELSE IF Field(nmea, idx, 1) # <<"A">> THEN [g EXCEPT !.fix = FALSE]
          ELSE RmcFix(g, nmea, idx)
          : idx \in {CommaScan(nmea, 0, <<>>, RMC_IDX)} })

\* void parseGPRMC(String nmea): the GPSData it leaves behind
parseGPRMC(g, nmea) ==
    Val({ IF Len(idx) < RMC_MIN THEN g
          ELSE IF Field(nmea, idx, 1) # <<"A">> THEN [g EXCEPT !.fix = FALSE]
          ELSE RmcFix(g, nmea, idx)
          : idx \in {CommaScan(nmea, 0, <<>>, RMC_IDX)} })

\* if (sats.length()) satelliteCount = sats.toInt();
SatCount(sat, sats) ==
    Val({ IF Len(t) > 0 THEN ToInt(t) ELSE sat : t \in {sats} })

\* mutant: a sentence without the count field clears the count
parseGPGGA_ClearOnShort(sat, nmea) ==
    Val({ IF Len(idx) < GGA_MIN THEN 0
          ELSE SatCount(sat, Field(nmea, idx, 6))
          : idx \in {CommaScan(nmea, 0, <<>>, GGA_IDX)} })

\* void parseGPGGA(String nmea): the satelliteCount it leaves behind
parseGPGGA(sat, nmea) ==
    Val({ IF Len(idx) < GGA_MIN THEN sat
          ELSE SatCount(sat, Field(nmea, idx, 6))
          : idx \in {CommaScan(nmea, 0, <<>>, GGA_IDX)} })

\* the 0-based entries of idx that parseGPRMC reads: none when it returns
\* at the comma count, idx[1] and idx[2] for the status, idx[2] .. idx[7]
\* for the fields of a valid fix
RmcReads(nmea, idx) ==
    IF Len(idx) < RMC_MIN THEN {}
    ELSE IF Field(nmea, idx, 1) # <<"A">> THEN {1, 2}
    ELSE 1..7

\* the 0-based entries of idx that parseGPGGA reads
GgaReads(idx) == IF Len(idx) < GGA_MIN THEN {} ELSE {6, 7}

GPRMC == <<"$", "G", "P", "R", "M", "C">>
GPGGA == <<"$", "G", "P", "G", "G", "A">>

-----------------------------------------------------------------------------
(* Sentences of the receiver *)

NL == "\n"

\* the fields joined by commas
RECURSIVE Join(_)
Join(fs) ==
    IF Len(fs) = 0 THEN <<>>
    ELSE IF Len(fs) = 1 THEN fs[1]
    ELSE fs[1] \o <<",">> \o Join(Tail(fs))

E_     == <<>>
A_     == <<"A">>
V_     == <<"V">>
Lat1   == <<"4", "8", "0", "7", ".", "0", "3", "8">>
Lat2   == <<"1", "2", "3", "4", ".", "5">>
Lon1   == <<"0", "1", "1", "3", "1", ".", "0", "0", "0">>
Knots1 == <<"1", "0", ".", "0">>
Sats1  == <<"0", "8">>
Course1 == <<"8", "4", ".", "4">>

\* the sentences the receiver sends in the control-loop model
RmcValid   == Join(<<GPRMC, E_, A_, Lat1, <<"N">>, Lon1, <<"E">>, Knots1, Course1,
                        E_>>)
RmcInvalid == Join(<<GPRMC, E_, V_, E_, E_, E_, E_, E_, E_, E_>>)
GgaSats    == Join(<<GPGGA, E_, E_, E_, E_, E_, <<"1">>, Sats1, E_>>)

StreamLines == {RmcValid, RmcInvalid, GgaSats}

\* the receiver may pause after every Chunk bytes of a sentence
Chunk == 9

-----------------------------------------------------------------------------
(* The clock *)

SEND_INTERVAL == 5000
RETRY_DELAY   == 2000
LOOP_DELAY    == 500
READ_TIMEOUT  == 1000           \* Stream::_timeout, never changed by the sketch
SETUP_DELAY   == 1000

\* the uptime the model follows the loop for, in ms
Horizon == 16000
\* the failed handshakes the history counter tells apart
MaxFails == 6

\* An unsigned long is 32 bits wide.  It is held as two 16-bit halves,
\* [hi, lo] for hi * 2^16 + lo.
W16 == 65536

\* the unsigned long that holds the integer t: t mod 2^32
Millis32(t) == [hi |-> (t \div W16) % W16, lo |-> t % W16]

\* a - b on unsigned long: (a - b) mod 2^32
U32Sub(a, b) ==
    [hi |-> (a.hi - b.hi - (IF a.lo < b.lo THEN 1 ELSE 0)) % W16,
     lo |-> (a.lo - b.lo) % W16]

\* a + b on unsigned long: (a + b) mod 2^32
U32Add(a, b) ==
    [hi |-> (a.hi + b.hi + (IF a.lo + b.lo >= W16 THEN 1 ELSE 0)) % W16,
     lo |-> (a.lo + b.lo) % W16]

\* a >= b on unsigned long
U32Ge(a, b) == a.hi > b.hi \/ (a.hi = b.hi /\ a.lo >= b.lo)

\* millis() - lastMQTTSend.  now and lastMQTTSend hold the uptime as an
\* integer; millis() returns its low 32 bits and lastMQTTSend stores them.
Elapsed == U32Sub(Millis32(now), Millis32(lastMQTTSend))

\* d ms pass.  With the clock left abstract no time is recorded.
Tick(d) ==
    IF clockOn THEN now + d <= Horizon /\ now' = now + d
    ELSE now' = now

\* mutant: the check compares millis() with a deadline,
\* millis() >= lastMQTTSend + SEND_INTERVAL
DueOutcomes_Deadline ==
    IF clockOn
    THEN {U32Ge(Millis32(now),
                U32Add(Millis32(lastMQTTSend), Millis32(SEND_INTERVAL)))}
    ELSE BOOLEAN

\* millis() - lastMQTTSend >= SEND_INTERVAL; with the clock left abstract the
\* comparison may go either way
DueOutcomes ==
    IF clockOn THEN {U32Ge(Elapsed, Millis32(SEND_INTERVAL))} ELSE BOOLEAN

-----------------------------------------------------------------------------
(* State *)

GPSData0 == [latitude |-> 0, longitude |-> 0, speed |-> 0, heading |-> 0,
             fix |-> FALSE]

NoFrame == [sent |-> FALSE]

InitCommon ==
    /\ lastMQTTSend = 0
    /\ connected = FALSE
    /\ rx = <<>>
    /\ wire = <<>>
    /\ frame = NoFrame
    /\ delivered = FALSE
    /\ fails = 0
    /\ now = SETUP_DELAY

\* the state in which loop() is first entered: setup() has returned, at the
\* earliest after its delay(1000)
Init ==
    /\ InitCommon
    /\ gpsData = GPSData0
    /\ satelliteCount = 0
    /\ gpsString = <<>>
    /\ pc = "loop"
    /\ clockOn = TRUE

-----------------------------------------------------------------------------
(* The receiver and the broker *)

\* The receiver starts to send one more sentence.  The sketch looks at the
\* receive buffer only in readGPS, so bytes that arrive at any other time
\* are taken to arrive when readGPS is reached.
GpsEmit ==
    /\ pc = "readGPS"
    /\ wire = <<>>
    /\ rx = <<>>
    /\ \E s \in StreamLines : wire' = Append(s, NL)
    /\ UNCHANGED <<gpsData, satelliteCount, lastMQTTSend, now, connected, pc,
                   rx, gpsString, frame, delivered, fails, clockOn>>

\* the next bytes of the sentence reach the Serial2 receive buffer
GpsDeliver ==
    /\ pc = "readGPS"
    /\ wire # <<>>
    /\ \E k \in {Chunk, Len(wire)} :
          /\ k <= Len(wire)
          /\ rx' = rx \o SubSeq(wire, 1, k)
          /\ wire' = SubSeq(wire, k + 1, Len(wire))
    /\ UNCHANGED <<gpsData, satelliteCount, lastMQTTSend, now, connected, pc,
                   gpsString, frame, delivered, fails, clockOn>>

\* the connection to the broker is lost
ConnDrop ==
    /\ connected
    /\ connected' = FALSE
    /\ UNCHANGED <<gpsData, satelliteCount, lastMQTTSend, now, pc, rx, wire,
                   gpsString, frame, delivered, fails, clockOn>>

-----------------------------------------------------------------------------
(* loop() *)

\* if (!client.connected()) reconnectMQTT();
LoopTop ==
    /\ pc = "loop"
    /\ pc' = IF connected THEN "mqttLoop" ELSE "connect"
    /\ frame' = NoFrame
    /\ delivered' = FALSE
    /\ UNCHANGED <<gpsData, satelliteCount, lastMQTTSend, now, connected, rx,
                   wire, gpsString, fails, clockOn>>

\* mutant: a new connection starts from a cleared satellite count and fix
ConnectOk_ResetsFix ==
    /\ pc = "connect"
    /\ connected' = TRUE
    /\ pc' = "retry"
    /\ gpsData' = [gpsData EXCEPT !.fix = FALSE]
    /\ satelliteCount' = 0
    /\ UNCHANGED <<lastMQTTSend, now, rx, wire, gpsString, frame, delivered,
                   fails, clockOn>>

\* reconnectMQTT: client.connect(...) succeeds
ConnectOk ==
    /\ pc = "connect"
    /\ connected' = TRUE
    /\ pc' = "retry"
    /\ UNCHANGED <<gpsData, satelliteCount, lastMQTTSend, now, rx, wire,
                   gpsString, frame, delivered, fails, clockOn>>

\* mutant: the retry loop gives up after three failed handshakes
ConnectFail_Bounded ==
    /\ pc = "connect"
    /\ fails' = Min(fails + 1, MaxFails)
    /\ pc' = IF fails >= 3 THEN "readGPS" ELSE "backoff"
    /\ UNCHANGED <<gpsData, satelliteCount, lastMQTTSend, now, connected, rx,
                   wire, gpsString, frame, delivered, clockOn>>

\* reconnectMQTT: client.connect(...) fails
ConnectFail ==
    /\ pc = "connect"
    /\ fails' = Min(fails + 1, MaxFails)
    /\ pc' = "backoff"
    /\ UNCHANGED <<gpsData, satelliteCount, lastMQTTSend, now, connected, rx,
                   wire, gpsString, frame, delivered, clockOn>>

\* mutant: after the delay the retry loop is left for the other duties of
\* the iteration
RetryDelay_Yield ==
    /\ pc = "backoff"
    /\ Tick(RETRY_DELAY)
    /\ pc' = "mqttLoop"
    /\ UNCHANGED <<gpsData, satelliteCount, lastMQTTSend, connected, rx, wire,
                   gpsString, frame, delivered, fails, clockOn>>

\* reconnectMQTT: delay(2000); the while condition still finds the client
\* not connected and the next attempt follows
RetryDelay ==
    /\ pc = "backoff"
    /\ Tick(RETRY_DELAY)
    /\ pc' = "connect"
    /\ UNCHANGED <<gpsData, satelliteCount, lastMQTTSend, connected, rx, wire,
                   gpsString, frame, delivered, fails, clockOn>>

\* reconnectMQTT: while (!client.connected()) after a successful handshake
RetryCheck ==
    /\ pc = "retry"
    /\ pc' = IF connected THEN "mqttLoop" ELSE "connect"
    /\ fails' = 0
    /\ UNCHANGED <<gpsData, satelliteCount, lastMQTTSend, now, connected, rx,
                   wire, gpsString, frame, delivered, clockOn>>

reconnectMQTT == ConnectOk \/ ConnectFail \/ RetryDelay \/ RetryCheck

\* client.loop(): no packet of the broker is waiting, or the connection is
\* down and loop() returns at once
ClientLoopIdle ==
    /\ pc = "mqttLoop"
    /\ pc' = "readGPS"
    /\ UNCHANGED <<gpsData, satelliteCount, lastMQTTSend, now, connected, rx,
                   wire, gpsString, frame, delivered, fails, clockOn>>

\* client.loop(): a message of the broker is waiting and the callback set in
\* setup() is called with it
ClientLoopMessage ==
    /\ pc = "mqttLoop"
    /\ connected
    /\ pc' = "onMessage"
    /\ UNCHANGED <<gpsData, satelliteCount, lastMQTTSend, now, connected, rx,
                   wire, gpsString, frame, delivered, fails, clockOn>>

\* onMqttMessage(topic, payload, length): prints the message on Serial
onMqttMessage ==
    /\ pc = "onMessage"
    /\ pc' = "readGPS"
    /\ UNCHANGED <<gpsData, satelliteCount, lastMQTTSend, now, connected, rx,
                   wire, gpsString, frame, delivered, fails, clockOn>>

\* 0-based position of the first newline of s, Len(s) when there is none
RECURSIVE FindNL(_, _)
FindNL(s, i) ==
    IF i < Len(s) /\ CharAt(s, i) # NL THEN FindNL(s, i + 1) ELSE i

\* readGPS: while (Serial2.available()) finds the buffer empty
ReadDone ==
    /\ pc = "readGPS"
    /\ rx = <<>>
    /\ pc' = "sched"
    /\ UNCHANGED <<gpsData, satelliteCount, lastMQTTSend, now, connected, rx,
                   wire, gpsString, frame, delivered, fails, clockOn>>

\* readGPS: Serial2.readStringUntil('\n') reads up to a newline
ReadLine ==
    /\ pc = "readGPS"
    /\ FindNL(rx, 0) < Len(rx)
    /\ gpsString' = Substring(rx, 0, FindNL(rx, 0))
    /\ rx' = SubSeq(rx, FindNL(rx, 0) + 2, Len(rx))
    /\ pc' = "dispatch"
    /\ UNCHANGED <<gpsData, satelliteCount, lastMQTTSend, now, connected, wire,
                   frame, delivered, fails, clockOn>>

\* readGPS: Serial2.readStringUntil('\n') runs out of bytes and no further
\* byte arrives within the stream timeout: it returns what it has read
ReadTimeout ==
    /\ pc = "readGPS"
    /\ rx # <<>>
    /\ FindNL(rx, 0) = Len(rx)
    /\ Tick(READ_TIMEOUT)
    /\ gpsString' = rx
    /\ rx' = <<>>
    /\ pc' = "dispatch"
    /\ UNCHANGED <<gpsData, satelliteCount, lastMQTTSend, connected, wire,
                   frame, delivered, fails, clockOn>>

\* mutant: the satellite count is taken only while there is a fix
Dispatch_GgaNeedsFix ==
    /\ pc = "dispatch"
    /\ gpsData' = IF StartsWith(gpsString, GPRMC)
                  THEN parseGPRMC(gpsData, gpsString) ELSE gpsData
    /\ satelliteCount' =
          IF ~StartsWith(gpsString, GPRMC) /\ StartsWith(gpsString, GPGGA)
             /\ gpsData.fix
          THEN parseGPGGA(satelliteCount, gpsString) ELSE satelliteCount
    /\ pc' = "readGPS"
    /\ UNCHANGED <<lastMQTTSend, now, connected, rx, wire, gpsString, frame,
                   delivered, fails, clockOn>>

\* readGPS: the line goes to the parser its prefix names, or to none
Dispatch ==
    /\ pc = "dispatch"
    /\ gpsData' = IF StartsWith(gpsString, GPRMC)
                  THEN parseGPRMC(gpsData, gpsString) ELSE gpsData
    /\ satelliteCount' =
          IF ~StartsWith(gpsString, GPRMC) /\ StartsWith(gpsString, GPGGA)
          THEN parseGPGGA(satelliteCount, gpsString) ELSE satelliteCount
    /\ pc' = "readGPS"
    /\ UNCHANGED <<lastMQTTSend, now, connected, rx, wire, gpsString, frame,
                   delivered, fails, clockOn>>

readGPS == ReadDone \/ ReadLine \/ ReadTimeout \/ Dispatch

\* mutant: without a fix the frame carries zeros
TelemetryFrame_ZeroNoFix(g, t) ==
    [sent |-> TRUE, latitude |-> IF g.fix THEN g.latitude ELSE 0,
     longitude |-> IF g.fix THEN g.longitude ELSE 0,
     speed |-> IF g.fix THEN g.speed ELSE 0, heading |-> g.heading,
     timestamp |-> t]

\* sendTelemetry: the frame built from gpsData and millis()
TelemetryFrame(g, t) ==
    [sent |-> TRUE, latitude |-> g.latitude, longitude |-> g.longitude,
     speed |-> g.speed, heading |-> g.heading, timestamp |-> t]

\* mutant: a publish without a connection starts the reconnect sequence
AfterPublish_Reconnect(conn) == IF conn THEN "oled" ELSE "connect"

\* client.publish: the frame reaches the broker only over a live connection;
\* otherwise publish returns false and does nothing else.  The position of
\* the loop after the call.
AfterPublish(conn) == "oled"

\* mutant: a publish closes the connection it used
SchedFire_Disconnect ==
    /\ pc = "sched"
    /\ TRUE \in DueOutcomes
    /\ frame' = TelemetryFrame(gpsData, now)
    /\ delivered' = connected
    /\ connected' = FALSE
    /\ lastMQTTSend' = now
    /\ pc' = AfterPublish(connected)
    /\ UNCHANGED <<gpsData, satelliteCount, now, rx, wire, gpsString, fails,
                   clockOn>>

\* mutant: the schedule stays aligned to the first tick,
\* lastMQTTSend += SEND_INTERVAL
SchedFire_Aligned ==
    /\ pc = "sched"
    /\ TRUE \in DueOutcomes
    /\ frame' = TelemetryFrame(gpsData, now)
    /\ delivered' = connected
    /\ lastMQTTSend' = lastMQTTSend + SEND_INTERVAL
    /\ pc' = AfterPublish(connected)
    /\ UNCHANGED <<gpsData, satelliteCount, now, connected, rx, wire,
                   gpsString, fails, clockOn>>

\* mutant: the last-send time is advanced only when the publish succeeded
SchedFire_RetryOnFail ==
    /\ pc = "sched"
    /\ TRUE \in DueOutcomes
    /\ frame' = TelemetryFrame(gpsData, now)
    /\ delivered' = connected
    /\ lastMQTTSend' = IF connected THEN now ELSE lastMQTTSend
    /\ pc' = AfterPublish(connected)
    /\ UNCHANGED <<gpsData, satelliteCount, now, connected, rx, wire,
                   gpsString, fails, clockOn>>

\* loop: the period check finds a tick due; sendTelemetry();
\* lastMQTTSend = millis();
SchedFire ==
    /\ pc = "sched"
    /\ TRUE \in DueOutcomes
    /\ frame' = TelemetryFrame(gpsData, now)
    /\ delivered' = connected
    /\ lastMQTTSend' = now
    /\ pc' = AfterPublish(connected)
    /\ UNCHANGED <<gpsData, satelliteCount, now, connected, rx, wire,
                   gpsString, fails, clockOn>>

\* loop: the period check finds no tick due
SchedSkip ==
    /\ pc = "sched"
    /\ FALSE \in DueOutcomes
    /\ pc' = "oled"
    /\ UNCHANGED <<gpsData, satelliteCount, lastMQTTSend, now, connected, rx,
                   wire, gpsString, frame, delivered, fails, clockOn>>

\* updateOLED(): shows the state and changes none of it
updateOLED ==
    /\ pc = "oled"
    /\ pc' = "delay"
    /\ UNCHANGED <<gpsData, satelliteCount, lastMQTTSend, now, connected, rx,
                   wire, gpsString, frame, delivered, fails, clockOn>>

\* delay(500); and loop() is entered again
LoopDelay ==
    /\ pc = "delay"
    /\ Tick(LOOP_DELAY)
    /\ pc' = "loop"
    /\ UNCHANGED <<gpsData, satelliteCount, lastMQTTSend, connected, rx, wire,
                   gpsString, frame, delivered, fails, clockOn>>

\* one step of the sketch
Program ==
    \/ LoopTop
    \/ reconnectMQTT
    \/ ClientLoopIdle
    \/ ClientLoopMessage
    \/ onMqttMessage
    \/ readGPS
    \/ SchedFire
    \/ SchedSkip
    \/ updateOLED
    \/ LoopDelay

Next ==
    \/ GpsEmit
    \/ GpsDeliver
    \/ ConnDrop
    \/ Program

Spec == Init /\ [][Next]_vars

\* The same sketch with the clock left abstract, so that the loop can be
\* followed without a horizon.  The processor keeps executing the sketch:
\* some step of it is taken whenever one is possible.  Nothing is assumed of
\* the receiver or of the broker.
InitLive ==
    /\ InitCommon
    /\ gpsData = GPSData0
    /\ satelliteCount = 0
    /\ gpsString = <<>>
    /\ pc = "loop"
    /\ clockOn = FALSE

SpecLive == InitLive /\ [][Next]_vars /\ WF_vars(Program)

\* The sketch as the uptime counter wraps.  Here the uptime is counted from
\* the moment the 32-bit counter wraps (2^32 ms after boot), so it is
\* negative before the wrap, and the loop is entered WrapLead ms before it
\* with the last fire one loop delay or 3000 ms back.
WrapLead == 3000

InitWrap ==
    /\ gpsData = GPSData0
    /\ satelliteCount = 0
    /\ gpsString = <<>>
    /\ connected \in BOOLEAN
    /\ rx = <<>>
    /\ wire = <<>>
    /\ frame = NoFrame
    /\ delivered = FALSE
    /\ fails = 0
    /\ now = -WrapLead
    /\ lastMQTTSend \in {now - LOOP_DELAY, now - 3000}
    /\ pc = "loop"
    /\ clockOn = TRUE

SpecWrap == InitWrap /\ [][Next]_vars

\* Disconnected | Connecting | Connected, as client.connected() and the
\* position of the loop give it
TransportState ==
    IF connected THEN "Connected"
    ELSE IF pc \in {"connect", "backoff", "retry"} THEN "Connecting"
    ELSE "Disconnected"

-----------------------------------------------------------------------------
(* The parsers on their own: one line, drawn from a family of sentences of   *)
(* varying length and content, is dispatched against a drawn prior state.    *)

\* the largest number of commas of a drawn sentence
MaxCommas == 16

Filler == <<"x">>

\* a number field and its value in thousandths
NumTable ==
    { [txt |-> Lat1, milli |-> 4807038],
      [txt |-> Lat2, milli |-> 1234500],
      [txt |-> Lon1, milli |-> 1131000],
      [txt |-> Knots1, milli |-> 10000],
      [txt |-> <<"0">>, milli |-> 0],
      [txt |-> <<"8", "9", "5", "9", ".", "9", "9", "9">>, milli |-> 8959999] }

NumFields == {e.txt : e \in NumTable}

\* prefix, then the first n of the fields fs and of fillers after them
Sentence(prefix, fs, n) ==
    Join(<<prefix>> \o [i \in 1..n |-> IF i <= Len(fs) THEN fs[i] ELSE Filler])

RmcInputs ==
    { Sentence(GPRMC, <<E_, st, lat, latD, lon, lonD, sp, Course1>>, n) :
        st \in {A_, V_, E_, <<"A", "A">>},
        lat \in {E_, Lat1, Lat2, <<"0">>},
        latD \in {<<"N">>, <<"S">>, E_, <<"W">>},
        lon \in {E_, Lon1, <<"8", "9", "5", "9", ".", "9", "9", "9">>},
        lonD \in {<<"E">>, <<"W">>, E_},
        sp \in {E_, Knots1},
        n \in 0..MaxCommas }

GgaInputs ==
    { Sentence(GPGGA, <<E_, Lat1, <<"N">>, Lon1, <<"E">>, <<"1">>, sats>>, n) :
        sats \in {E_, Sats1, <<"1", "2">>, Filler},
        n \in 0..MaxCommas }

OtherInputs ==
    { Sentence(p, <<E_, A_, Lat1, <<"S">>, Lon1, <<"W">>, Sats1>>, n) :
        p \in {<<"$", "G", "P", "G", "S", "V">>, <<"G", "P", "R", "M", "C">>, E_},
        n \in {0, MaxCommas} }

ParseInputs == RmcInputs \cup GgaInputs \cup OtherInputs

\* a Position State left by earlier sentences
StaleFix == [latitude |-> -754500, longitude |-> 678600, speed |-> 18520000,
             heading |-> 0, fix |-> TRUE]

PriorStates == {GPSData0, StaleFix, [StaleFix EXCEPT !.fix = FALSE]}

InitParse ==
    /\ InitCommon
    /\ gpsData \in PriorStates
    /\ satelliteCount \in {0, 5}
    /\ gpsString \in ParseInputs
    /\ pc = "dispatch"
    /\ clockOn = TRUE

SpecParse == InitParse /\ [][Dispatch]_vars

-----------------------------------------------------------------------------
(* Properties *)

\* the number of commas of s
CommaCount(s) == Cardinality({i \in 1..Len(s) : s[i] = ","})

\* the 1-based position of the n-th comma of s
NthComma(s, n) ==
    CHOOSE i \in 1..Len(s) :
        s[i] = "," /\ Cardinality({j \in 1..i : s[j] = ","}) = n

\* the text between the n-th and the (n+1)-th comma of s
FieldN(s, n) == SubSeq(s, NthComma(s, n) + 1, NthComma(s, n + 1) - 1)

IsRmc(s) == Len(s) >= 6 /\ SubSeq(s, 1, 6) = GPRMC
IsGga(s) == Len(s) >= 6 /\ SubSeq(s, 1, 6) = GPGGA

\* the step that hands gpsString to its parser
DispatchStep == pc = "dispatch" /\ pc' = "readGPS"

\* C1: a fix/velocity sentence with at least 9 commas whose validity field is
\* not exactly "A" sets hasFix to false and leaves latitude, longitude, speed
\* and heading as they were
C1_InvalidFixKeepsValues ==
    [][ (DispatchStep /\ IsRmc(gpsString) /\ CommaCount(gpsString) >= 9
           /\ FieldN(gpsString, 2) # <<"A">>)
        => /\ gpsData'.fix = FALSE
           /\ gpsData'.latitude = gpsData.latitude
           /\ gpsData'.longitude = gpsData.longitude
           /\ gpsData'.speed = gpsData.speed
           /\ gpsData'.heading = gpsData.heading ]_vars

\* an invalid-fix sentence has been parsed over a fix with non-zero values
C1_Witness ==
    /\ pc = "readGPS"
    /\ IsRmc(gpsString) /\ CommaCount(gpsString) >= 9
    /\ FieldN(gpsString, 2) = V_
    /\ gpsData = [StaleFix EXCEPT !.fix = FALSE]

\* C2: a fix/velocity sentence with fewer than 9 commas changes no field of
\* Position State nor SatelliteCount, whatever its validity flag, and the
\* loop goes on to its next read
C2_ShortRmcIgnored ==
    [][ (DispatchStep /\ IsRmc(gpsString) /\ CommaCount(gpsString) < 9)
        => /\ gpsData' = gpsData
           /\ satelliteCount' = satelliteCount
           /\ pc' = "readGPS" ]_vars

\* a sentence of 8 commas flagged A has been parsed and the fix is still unset
C2_Witness ==
    /\ pc = "readGPS"
    /\ IsRmc(gpsString) /\ CommaCount(gpsString) = 8
    /\ FieldN(gpsString, 2) = A_
    /\ FieldN(gpsString, 3) = Lat1
    /\ gpsData = GPSData0

\* C3: a fix-quality sentence with fewer than 8 commas leaves SatelliteCount
\* and everything else as it was
C3_ShortGgaIgnored ==
    [][ (DispatchStep /\ IsGga(gpsString) /\ CommaCount(gpsString) < 8)
        => /\ satelliteCount' = satelliteCount
           /\ gpsData' = gpsData
           /\ UNCHANGED <<lastMQTTSend, now, connected, rx, wire, frame,
                          delivered>> ]_vars

\* a sentence of 7 commas that ends in the count field has been parsed
C3_Witness ==
    /\ pc = "readGPS"
    /\ IsGga(gpsString) /\ CommaCount(gpsString) = 7
    /\ SubSeq(gpsString, NthComma(gpsString, 7) + 1, Len(gpsString)) = Sats1
    /\ satelliteCount = 5

\* the value, in thousandths, of a number field of the table
Milli(f) == (CHOOSE e \in NumTable : e.txt = f).milli

\* floor(v/100) + (v - 100 * floor(v/100)) / 60 in 1/60000 degree, for a
\* degrees-minutes value v >= 0 given in thousandths
DecimalDegrees(v) == (v \div 100000) * 60000 + (v % 100000)

\* C10: a valid fix sentence stores, for a non-empty latitude (longitude)
\* field of value v >= 0, the magnitude floor(v/100) + (v mod 100)/60, negated
\* exactly when the hemisphere field is "S" ("W")
C10_DegreesMinutes ==
    [][ (DispatchStep /\ IsRmc(gpsString) /\ CommaCount(gpsString) >= 9
           /\ FieldN(gpsString, 2) = A_)
        => /\ FieldN(gpsString, 3) \in NumFields
              => gpsData'.latitude =
                   IF FieldN(gpsString, 4) = <<"S">>
                   THEN -DecimalDegrees(Milli(FieldN(gpsString, 3)))
                   ELSE DecimalDegrees(Milli(FieldN(gpsString, 3)))
           /\ FieldN(gpsString, 5) \in NumFields
              => gpsData'.longitude =
                   IF FieldN(gpsString, 6) = <<"W">>
                   THEN -DecimalDegrees(Milli(FieldN(gpsString, 5)))
                   ELSE DecimalDegrees(Milli(FieldN(gpsString, 5))) ]_vars

\* 4807.038,S and 01131.000,W have been parsed: -48.1173 and -11.516667
C10_Witness ==
    /\ pc = "readGPS"
    /\ IsRmc(gpsString) /\ CommaCount(gpsString) >= 9
    /\ FieldN(gpsString, 2) = A_
    /\ FieldN(gpsString, 3) = Lat1 /\ FieldN(gpsString, 4) = <<"S">>
    /\ FieldN(gpsString, 5) = Lon1 /\ FieldN(gpsString, 6) = <<"W">>
    /\ gpsData.latitude = -2887038
    /\ gpsData.longitude = -691000

\* C4: after each failed handshake Transport is still Connecting and the
\* next attempt follows after the fixed delay, however many failures came
\* before; it is Connected at the first handshake that succeeds
C4_ReconnectSequence ==
    [][ /\ (pc = "connect" /\ pc' # pc)
           => IF connected'
              THEN /\ TransportState' = "Connected"
                   /\ pc' = "retry"
                   /\ fails' = fails
              ELSE /\ TransportState' = "Connecting"
                   /\ pc' = "backoff"
                   /\ fails' = Min(fails + 1, MaxFails)
        /\ (pc = "backoff" /\ pc' # pc)
           => /\ TransportState' = "Connecting"
              /\ pc' = "connect"
              /\ now' = now + RETRY_DELAY
              /\ fails' = fails ]_vars

\* the handshake has succeeded after four failed ones in a row
C4_Witness ==
    pc = "retry" /\ connected /\ fails = 4 /\ now = SETUP_DELAY + 4 * RETRY_DELAY

\* the step in which the period check fires
FireStep == pc = "sched" /\ frame' # NoFrame

\* C5 as stated: a fire comes exactly one period after the fire before it
\* (no period with two fires, none without a fire)
C5_ExactlyOncePerPeriod ==
    [][ (FireStep /\ lastMQTTSend > 0)
        => lastMQTTSend' - lastMQTTSend = SEND_INTERVAL ]_vars

\* C6 as stated: whatever the handshakes do, the loop is never held in the
\* connection handling for good: time and again Transport is not Connecting
\* and the loop is at its other duties
C6_NeverStuckInReconnect == []<>(TransportState # "Connecting")

\* C7 as stated: a publish attempted while not connected moves Transport to
\* Connecting, and so does the start of a loop iteration that finds Transport
\* not connected
C7_PublishTriggersConnect ==
    [][ /\ (FireStep /\ ~connected) => TransportState' = "Connecting"
        /\ (pc = "loop" /\ pc' # pc /\ ~connected)
              => TransportState' = "Connecting" ]_vars

\* C7 amended: a publish attempted while not connected sends nothing and
\* leaves Transport Disconnected; only the start of a loop iteration that
\* finds Transport not connected moves it to Connecting
C7_OnlyLoopStartConnects ==
    [][ /\ (FireStep /\ ~connected)
              => TransportState' = "Disconnected" /\ ~delivered'
        /\ (pc = "loop" /\ pc' # pc /\ ~connected)
              => TransportState' = "Connecting"
        /\ (TransportState = "Disconnected" /\ TransportState' = "Connecting")
              => pc = "loop" ]_vars

\* a frame was handed to publish after the connection had dropped
C7_Witness ==
    pc = "oled" /\ frame # NoFrame /\ ~delivered /\ ~connected

\* C8 as stated: every line handed to the parser is a complete line of the
\* receiver
C8_OnlyCompleteLines == pc = "dispatch" => gpsString \in StreamLines

\* C9: every fire hands publish one frame that carries latitude, longitude,
\* speed and heading as Position State holds them at that moment, with or
\* without a fix
C9_FrameIsSnapshot ==
    [][ (pc = "sched" /\ pc' # pc /\ TRUE \in DueOutcomes)
        => /\ frame' # NoFrame
           /\ frame'.latitude = gpsData.latitude
           /\ frame'.longitude = gpsData.longitude
           /\ frame'.speed = gpsData.speed
           /\ frame'.heading = gpsData.heading
           /\ frame'.timestamp = now
           /\ gpsData' = gpsData ]_vars

\* a frame fired after the fix was lost carries the last valid values
C9_Witness ==
    /\ pc = "oled" /\ frame # NoFrame
    /\ ~gpsData.fix
    /\ frame.latitude = 2887038 /\ frame.longitude = 691000
    /\ frame.speed = 18520000

\* the positions of the loop inside reconnectMQTT
InReconnect == pc \in {"connect", "backoff", "retry"}

\* C11: the steps of readGPS and its parsers and the period check with the
\* frame submission leave client.connected() and the Transport state as they
\* were; the client becomes connected only at a connection attempt
C11_ParserSchedulerKeepConnection ==
    [][ /\ (pc \in {"readGPS", "dispatch", "sched"} /\ pc' # pc)
              => /\ connected' = connected
                 /\ TransportState' = TransportState
        /\ (connected' /\ ~connected) => pc = "connect" ]_vars

\* a fix and a satellite count have been parsed and a frame has been
\* published over a connection that is still up
C11_Witness ==
    /\ pc = "oled" /\ frame # NoFrame /\ delivered /\ connected
    /\ gpsData.fix /\ satelliteCount = 8

\* C12: latitude, longitude, speed, heading, hasFix and SatelliteCount
\* change only in the step that hands a line to its parser: sendTelemetry,
\* reconnectMQTT, client.loop() with onMqttMessage, updateOLED and the delay
\* leave all of them as they were
C12_OnlyParserWrites ==
    [][ (pc # "dispatch" \/ pc' # "readGPS")
        => gpsData' = gpsData /\ satelliteCount' = satelliteCount ]_vars

\* the reconnect sequence has run, with a failed handshake, after a fix and
\* a satellite count were parsed and a frame was fired
C12_Witness ==
    /\ pc = "retry" /\ connected /\ fails >= 1
    /\ gpsData.fix /\ gpsData.latitude = 2887038
    /\ satelliteCount = 8
    /\ lastMQTTSend > 0

\* C13: a loop iteration that finds the client not connected enters the
\* retry loop; inside it no line is read or parsed, Position State,
\* SatelliteCount and the last-send time stay as they are and no frame is
\* published; it is left only with the client connected, for client.loop()
C13_ReconnectBlocksOtherDuties ==
    [][ /\ (pc = "loop" /\ pc' # pc /\ ~connected) => pc' = "connect"
        /\ InReconnect
              => /\ UNCHANGED <<gpsData, satelliteCount, lastMQTTSend,
                                gpsString, rx, frame, delivered>>
                 /\ frame = NoFrame
                 /\ InReconnect' \/ (connected /\ pc' = "mqttLoop") ]_vars

\* the loop is held in the retry loop after two failed handshakes, with a
\* fix parsed and a frame fired before
C13_Witness ==
    /\ pc = "backoff" /\ fails = 2 /\ ~connected
    /\ gpsData.fix /\ lastMQTTSend > 0

\* the step of the period check, fired or not
CheckStep == pc = "sched" /\ pc' # pc

\* C14: the first period check reached 5000 ms or more after the last fire,
\* however much more, fires one frame and restarts the period from that
\* moment; no fire comes less than 5000 ms after the fire before it
C14_MissedTicksDelayed ==
    [][ /\ (CheckStep /\ now - lastMQTTSend >= SEND_INTERVAL)
              => /\ FireStep
                 /\ frame'.timestamp = now
                 /\ lastMQTTSend' = now
        /\ FireStep => now - lastMQTTSend >= SEND_INTERVAL
        /\ (CheckStep /\ now - lastMQTTSend < SEND_INTERVAL)
              => frame' = NoFrame /\ lastMQTTSend' = lastMQTTSend ]_vars

\* the first period check after five failed handshakes in a row: the last
\* fire was at 5000 ms and the check is reached at 15500 ms, more than two
\* periods later
C14_Witness ==
    /\ pc = "sched" /\ connected
    /\ lastMQTTSend = SEND_INTERVAL
    /\ now = SEND_INTERVAL + LOOP_DELAY + 5 * RETRY_DELAY

\* C15: every fire sets the last-send time to the uptime and goes on to the
\* display, whether the frame reached the broker or not, and a check less
\* than a period after a fire submits nothing, whatever became of that fire
C15_FireAndForget ==
    [][ /\ FireStep
              => /\ lastMQTTSend' = now
                 /\ delivered' = connected
                 /\ pc' = "oled"
        /\ (CheckStep /\ now - lastMQTTSend < SEND_INTERVAL)
              => /\ frame' = NoFrame /\ ~delivered'
                 /\ lastMQTTSend' = lastMQTTSend ]_vars

\* a frame was submitted without a connection and the last-send time is the
\* time of that fire
C15_Witness ==
    /\ pc = "oled" /\ frame # NoFrame /\ ~delivered
    /\ lastMQTTSend = now /\ frame.timestamp = now

\* C16: heading is 0 in every state, and so is the heading of every frame
C16_HeadingNeverWritten ==
    /\ gpsData.heading = 0
    /\ frame # NoFrame => frame.heading = 0

\* a frame was fired after a valid fix sentence with a course field was
\* parsed
C16_Witness ==
    /\ pc = "oled" /\ frame # NoFrame
    /\ gpsData.fix /\ frame.speed = 18520000 /\ frame.latitude = 2887038
    /\ FieldN(RmcValid, 8) = Course1
    /\ frame.heading = 0

\* a count field and the integer it reads as
CountTable ==
    { [txt |-> Sats1, n |-> 8],
      [txt |-> <<"1", "2">>, n |-> 12],
      [txt |-> Filler, n |-> 0] }

CountFields == {e.txt : e \in CountTable}

CountOf(f) == (CHOOSE e \in CountTable : e.txt = f).n

\* C17: a fix-quality sentence with at least 8 commas and a non-empty count
\* field sets SatelliteCount to that count, with or without a fix, and leaves
\* Position State alone; a fix/velocity sentence leaves SatelliteCount alone
C17_CountIndependentOfFix ==
    [][ /\ (DispatchStep /\ IsGga(gpsString) /\ CommaCount(gpsString) >= 8
              /\ FieldN(gpsString, 7) \in CountFields)
           => /\ satelliteCount' = CountOf(FieldN(gpsString, 7))
              /\ gpsData' = gpsData
        /\ (DispatchStep /\ IsRmc(gpsString))
           => satelliteCount' = satelliteCount ]_vars

\* the count 12 has been taken from a sentence while there was no fix
C17_Witness ==
    /\ pc = "readGPS"
    /\ IsGga(gpsString) /\ CommaCount(gpsString) >= 8
    /\ FieldN(gpsString, 7) = <<"1", "2">>
    /\ satelliteCount = 12
    /\ gpsData = [StaleFix EXCEPT !.fix = FALSE]

\* C18: a valid fix sentence sets hasFix; an empty latitude, longitude or
\* speed field leaves the stored value as it was, whatever the hemisphere
\* letter, and a non-empty one is stored
C18_EmptyFieldsKeepStale ==
    [][ (DispatchStep /\ IsRmc(gpsString) /\ CommaCount(gpsString) >= 9
           /\ FieldN(gpsString, 2) = A_)
        => /\ gpsData'.fix = TRUE
           /\ gpsData'.heading = gpsData.heading
           /\ FieldN(gpsString, 3) = E_
                 => gpsData'.latitude = gpsData.latitude
           /\ FieldN(gpsString, 5) = E_
                 => gpsData'.longitude = gpsData.longitude
           /\ FieldN(gpsString, 7) = E_ => gpsData'.speed = gpsData.speed
           /\ FieldN(gpsString, 3) \in NumFields
                 => gpsData'.latitude \in
                      {DecimalDegrees(Milli(FieldN(gpsString, 3))),
                       -DecimalDegrees(Milli(FieldN(gpsString, 3)))}
           /\ FieldN(gpsString, 5) \in NumFields
                 => gpsData'.longitude \in
                      {DecimalDegrees(Milli(FieldN(gpsString, 5))),
                       -DecimalDegrees(Milli(FieldN(gpsString, 5)))}
           /\ FieldN(gpsString, 7) \in NumFields
                 => gpsData'.speed = Milli(FieldN(gpsString, 7)) * 1852 ]_vars

\* a valid sentence with empty latitude (hemisphere S) and empty speed has
\* been parsed over an earlier state without a fix: the fix is set, the
\* longitude is new, latitude and speed are the earlier ones
C18_Witness ==
    /\ pc = "readGPS"
    /\ IsRmc(gpsString) /\ CommaCount(gpsString) >= 9
    /\ FieldN(gpsString, 2) = A_
    /\ FieldN(gpsString, 3) = E_ /\ FieldN(gpsString, 4) = <<"S">>
    /\ FieldN(gpsString, 5) = Lon1 /\ FieldN(gpsString, 6) = <<"E">>
    /\ FieldN(gpsString, 7) = E_
    /\ gpsData = [StaleFix EXCEPT !.longitude = 691000]

\* C19: across the wrap of the uptime counter the period check fires exactly
\* when 5000 ms or more have passed since the last fire
C19_PeriodCheckAcrossWrap ==
    [][ CheckStep
        => /\ FireStep <=> now - lastMQTTSend >= SEND_INTERVAL
           /\ FireStep => lastMQTTSend' = now
           /\ ~FireStep => lastMQTTSend' = lastMQTTSend ]_vars

\* a frame has fired within the first period after the wrap: the fire before
\* it was stamped before the wrap
C19_Witness ==
    /\ pc = "oled" /\ frame # NoFrame
    /\ lastMQTTSend = now
    /\ now >= 0 /\ now < SEND_INTERVAL
    /\ Millis32(now).hi = 0

\* C20: the scan records the positions of the first 12 (15) commas of the
\* line and no more, and every entry the parser reads has been recorded
C20_IdxWithinBounds ==
    [][ /\ (DispatchStep /\ IsRmc(gpsString))
           => \A idx \in {CommaScan(gpsString, 0, <<>>, RMC_IDX)} :
                 /\ Len(idx) = Min(CommaCount(gpsString), RMC_IDX)
                 /\ \A j \in 1..Len(idx) : idx[j] + 1 = NthComma(gpsString, j)
                 /\ \A k \in RmcReads(gpsString, idx) : k < Len(idx)
        /\ (DispatchStep /\ IsGga(gpsString))
           => \A idx \in {CommaScan(gpsString, 0, <<>>, GGA_IDX)} :
                 /\ Len(idx) = Min(CommaCount(gpsString), GGA_IDX)
                 /\ \A j \in 1..Len(idx) : idx[j] + 1 = NthComma(gpsString, j)
                 /\ \A k \in GgaReads(idx) : k < Len(idx) ]_vars

\* a fix-quality sentence of 16 commas, one more than the table holds, has
\* been parsed and its count taken
C20_Witness ==
    /\ pc = "readGPS"
    /\ IsGga(gpsString) /\ CommaCount(gpsString) = GGA_IDX + 1
    /\ FieldN(gpsString, 7) = Sats1
    /\ satelliteCount = 8

====
